---- MODULE Spec2Model ----
(***************************************************************************)
(* Plant store backend (products app): the product catalog, the order      *)
(* ledger and the purchase request of views.py, over the models of         *)
(* models.py and the serializers of serializers.py.                        *)
(*                                                                         *)
(* The database runs in autocommit: views.py opens no transaction and      *)
(* takes no row lock, so every ORM call (a SELECT, an UPDATE, an INSERT, a *)
(* DELETE) is one atomic step and a purchase request is three of them.     *)
(***************************************************************************)
EXTENDS Integers, Sequences, FiniteSets, TLC

\* ------------------------------------------------------------------ bounds
MaxProducts == 1        \* product rows ever created (primary keys 1..MaxProducts)
MaxStock    == 2        \* largest stock and largest quantity a request carries
MaxPrice    == 2        \* largest price a request carries
MaxOrders   == 2        \* purchases begun while the ledger holds fewer rows

\* ---------------------------------------------------------- input domains
Users    == {"s1", "s2", "b1"}
Anon     == "anon"                       \* AnonymousUser
Callers  == Users \cup {Anon}
Buyers   == {"b1", Anon}                 \* callers of POST /sold-products
Reqs     == {"r1", "r2"}                 \* purchase requests in flight
PIDs     == 1..MaxProducts
Stocks   == 0..MaxStock                  \* PositiveIntegerField: >= 0
Prices   == 1..MaxPrice
Totals   == {MaxPrice}                   \* total_price values of a request body
NoCategory == "none"                     \* no ?category= query parameter

CATEGORY_CHOICES == {"Plants", "Seeds", "Gardening Tools", "Pots & Planters"}
Categories == CATEGORY_CHOICES \cap {"Plants", "Seeds"}   \* those the requests use

\* User.is_seller of every account: two sellers and one buyer are registered
is_seller == [u \in Users |-> u \in {"s1", "s2"}]

VARIABLES
    products,    \* the Product table: primary key -> row
    next_id,     \* the next Product primary key
    orders,      \* the SoldProduct table, in insertion order
    reqs,        \* the purchase requests: where each is in perform_create
    resp         \* the response a catalog request has written and the client
                 \* has not yet taken (NoResp: none)

vars == <<products, next_id, orders, reqs, resp>>

\* ------------------------------------------------------------------ rows
Product(price, category, stock, seller) ==
    [price |-> price, category |-> category, stock |-> stock, seller |-> seller]

SoldProduct(pid, buyer, quantity, total_price) ==
    [product |-> pid, buyer |-> buyer, quantity |-> quantity,
     total_price |-> total_price, status |-> "Pending"]

NullProduct == Product(0, "", 0, "")

IdleReq == [pc |-> "idle", buyer |-> "", pid |-> 0, product |-> NullProduct,
            quantity |-> 0, total_price |-> 0, error |-> 0]

\* A response: the view action, the caller, the primary key of the URL (0 on
\* a collection route), the ?category= parameter, the HTTP status and the
\* rows of the body
Response(op, caller, pid, category, status, body) ==
    [op |-> op, caller |-> caller, pid |-> pid, category |-> category,
     status |-> status, body |-> body]

NoResp == Response("none", "", 0, NoCategory, 0, {})

\* ------------------------------------------------------------ permissions
IsAuthenticated(caller) == caller # Anon

\* IsSeller.has_permission; DRF evaluates it after IsAuthenticated passed
IsSeller(caller) == is_seller[caller]

ProductWritePermission_AnyAccount(caller) == IsAuthenticated(caller)

\* ProductViewSet.get_permissions for create, update, partial_update, destroy
ProductWritePermission(caller) == IsAuthenticated(caller) /\ IsSeller(caller)

\* SoldProductViewSet.get_permissions for create, update, partial_update
SoldProductWritePermission(caller) == IsAuthenticated(caller)

\* ------------------------------------------------------------- querysets
get_queryset_NoStockFilter(caller, category) ==
    IF category # NoCategory
    THEN {p \in DOMAIN products : products[p].category = category}
    ELSE DOMAIN products

get_queryset_OwnerScoped(caller, category) ==
    LET scoped == {p \in DOMAIN products :
                      \/ products[p].stock > 0
                      \/ IsAuthenticated(caller) /\ is_seller[caller]
                           /\ products[p].seller = caller}
    IN  IF category # NoCategory
        THEN {p \in scoped : products[p].category = category}
        ELSE scoped

\* ProductViewSet.get_queryset: the primary keys of the rows it returns
get_queryset(caller, category) ==
    LET scoped == IF IsAuthenticated(caller) /\ is_seller[caller]
                  THEN DOMAIN products
                  ELSE {p \in DOMAIN products : products[p].stock > 0}
    IN  IF category # NoCategory
        THEN {p \in scoped : products[p].category = category}
        ELSE scoped

\* The rows a response carries: primary key and the row as serialized
Rows(pids) == {<<p, products[p]>> : p \in pids}

InsufficientStock_OffByOne(product, quantity) == product.stock + 1 < quantity

\* perform_create, line 223: the stock check
InsufficientStock(product, quantity) == product.stock < quantity

InsufficientStockError_Quantity(product, quantity) == quantity

\* perform_create, line 225: the stock value the error message carries
InsufficientStockError(product, quantity) == product.stock

StockAfterPurchase_DecrementOne(product, quantity) == product.stock - 1

\* perform_create, line 229: product.stock -= quantity
StockAfterPurchase(product, quantity) == product.stock - quantity

Without(f, k) == [x \in (DOMAIN f) \ {k} |-> f[x]]

\* ------------------------------------------------------------------ init
Init ==
    /\ products = <<>>
    /\ next_id = 1
    /\ orders = <<>>
    /\ reqs = [r \in Reqs |-> IdleReq]
    /\ resp = NoResp

\* ------------------------------------------------------- catalog requests
\* GET /products/?category=
ListProducts(caller, category) ==
    /\ resp = NoResp
    /\ resp' = Response("list", caller, 0, category, 200,
                        Rows(get_queryset(caller, category)))
    /\ UNCHANGED <<products, next_id, orders, reqs>>

\* GET /products/:id/
RetrieveProduct(caller, pid, category) ==
    /\ resp = NoResp
    /\ resp' = IF pid \in get_queryset(caller, category)
               THEN Response("retrieve", caller, pid, category, 200, Rows({pid}))
               ELSE Response("retrieve", caller, pid, category, 404, {})
    /\ UNCHANGED <<products, next_id, orders, reqs>>

\* POST /products/
CreateProduct(caller, price, category, stock) ==
    /\ resp = NoResp
    /\ ProductWritePermission(caller) => next_id <= MaxProducts
    /\ IF ProductWritePermission(caller)
       THEN /\ products' = products @@
                               (next_id :> Product(price, category, stock, caller))
            /\ next_id' = next_id + 1
            /\ resp' = Response("create", caller, 0, NoCategory, 201,
                                {<<next_id, products'[next_id]>>})
       ELSE /\ resp' = Response("create", caller, 0, NoCategory, 403, {})
            /\ UNCHANGED <<products, next_id>>
    /\ UNCHANGED <<orders, reqs>>

\* PUT/PATCH /products/:id/ : the seller field is read-only
UpdateProduct(caller, pid, category, price, stock) ==
    /\ resp = NoResp
    /\ IF ~ProductWritePermission(caller)
       THEN /\ resp' = Response("update", caller, pid, category, 403, {})
            /\ UNCHANGED products
       ELSE IF pid \notin get_queryset(caller, category)
       THEN /\ resp' = Response("update", caller, pid, category, 404, {})
            /\ UNCHANGED products
       ELSE /\ products' = [products EXCEPT ![pid].price = price, ![pid].stock = stock]
            /\ resp' = Response("update", caller, pid, category, 200,
                                {<<pid, products'[pid]>>})
    /\ UNCHANGED <<next_id, orders, reqs>>

\* DELETE /products/:id/ : SoldProduct.product is on_delete=CASCADE
DeleteProduct(caller, pid, category) ==
    /\ resp = NoResp
    /\ IF ~ProductWritePermission(caller)
       THEN /\ resp' = Response("destroy", caller, pid, category, 403, {})
            /\ UNCHANGED <<products, orders>>
       ELSE IF pid \notin get_queryset(caller, category)
       THEN /\ resp' = Response("destroy", caller, pid, category, 404, {})
            /\ UNCHANGED <<products, orders>>
       ELSE /\ products' = Without(products, pid)
            /\ orders' = SelectSeq(orders, LAMBDA o : o.product # pid)
            /\ resp' = Response("destroy", caller, pid, category, 204, {})
    /\ UNCHANGED <<next_id, reqs>>

\* ------------------------------------------------------ purchase requests
InFlight == {r \in Reqs : reqs[r].pc # "idle"}

\* POST /sold-products/ up to serializer.is_valid(): the permission check, then
\* PrimaryKeyRelatedField loads the product row
BeginPurchase(r, caller, pid, quantity, total_price) ==
    /\ reqs[r].pc = "idle"
    /\ Len(orders) + Cardinality(InFlight) < MaxOrders
    /\ reqs' = [reqs EXCEPT ![r] =
            IF ~SoldProductWritePermission(caller)
            THEN [IdleReq EXCEPT !.pc = "denied"]
            ELSE IF pid \notin DOMAIN products
            THEN [IdleReq EXCEPT !.pc = "invalid", !.buyer = caller]
            ELSE [pc |-> "validated", buyer |-> caller, pid |-> pid,
                  product |-> products[pid], quantity |-> quantity,
                  total_price |-> total_price, error |-> 0]]
    /\ resp = NoResp
    /\ UNCHANGED <<products, next_id, orders, resp>>

\* perform_create, lines 219-230: the stock check on the loaded row, then
\* product.save() writes every field of the loaded row (an UPDATE, or an
\* INSERT when the row is gone). From here on the request uses the row's
\* primary key only.
CheckAndSaveStock(r) ==
    /\ reqs[r].pc = "validated"
    /\ IF InsufficientStock(reqs[r].product, reqs[r].quantity)
       THEN /\ reqs' = [reqs EXCEPT ![r] = [IdleReq EXCEPT
                              !.pc = "insufficient", !.buyer = reqs[r].buyer,
                              !.pid = reqs[r].pid,
                              !.error = InsufficientStockError(reqs[r].product,
                                                               reqs[r].quantity)]]
            /\ UNCHANGED products
       ELSE LET saved == [reqs[r].product EXCEPT
                              !.stock = StockAfterPurchase(reqs[r].product,
                                                           reqs[r].quantity)]
            IN  /\ products' = [p \in (DOMAIN products) \cup {reqs[r].pid} |->
                                   IF p = reqs[r].pid THEN saved ELSE products[p]]
                /\ reqs' = [reqs EXCEPT ![r].pc = "saved", ![r].product = NullProduct]
    /\ resp = NoResp
    /\ UNCHANGED <<next_id, orders, resp>>

\* perform_create, line 233: serializer.save(buyer=request.user) inserts the
\* SoldProduct row; the foreign key fails when the product row is gone
InsertOrder(r) ==
    /\ reqs[r].pc = "saved"
    /\ IF reqs[r].pid \in DOMAIN products
       THEN /\ orders' = Append(orders, SoldProduct(reqs[r].pid, reqs[r].buyer,
                                    reqs[r].quantity, reqs[r].total_price))
            /\ reqs' = [reqs EXCEPT ![r] = [IdleReq EXCEPT
                              !.pc = "created", !.buyer = reqs[r].buyer,
                              !.pid = reqs[r].pid]]
       ELSE /\ reqs' = [reqs EXCEPT ![r] = [IdleReq EXCEPT
                              !.pc = "failed", !.buyer = reqs[r].buyer,
                              !.pid = reqs[r].pid]]
            /\ UNCHANGED orders
    /\ resp = NoResp
    /\ UNCHANGED <<products, next_id, resp>>

\* The response is sent and the request is over
Respond(r) ==
    /\ reqs[r].pc \in {"denied", "invalid", "insufficient", "created", "failed"}
    /\ reqs' = [reqs EXCEPT ![r] = IdleReq]
    /\ resp = NoResp
    /\ UNCHANGED <<products, next_id, orders, resp>>

\* SoldProductViewSet.get_queryset: the positions in the ledger of the rows
\* it returns for a view action and a caller
sold_get_queryset(action, caller) ==
    IF action \in {"list", "retrieve"}
    THEN 1..Len(orders)
    ELSE IF IsAuthenticated(caller)
    THEN IF is_seller[caller]
         THEN {i \in 1..Len(orders) :
                  /\ orders[i].product \in DOMAIN products
                  /\ products[orders[i].product].seller = caller}
         ELSE {i \in 1..Len(orders) : orders[i].buyer = caller}
    ELSE {}

\* PATCH /sold-products/:id/ with a total_price: ModelViewSet.partial_update
\* saves the serializer, whose total_price field is writable
UpdateOrder(caller, i, total_price) ==
    /\ resp = NoResp
    /\ IF ~SoldProductWritePermission(caller)
       THEN /\ resp' = Response("update_order", caller, i, NoCategory, 403, {})
            /\ UNCHANGED orders
       ELSE IF i \notin sold_get_queryset("partial_update", caller)
       THEN /\ resp' = Response("update_order", caller, i, NoCategory, 404, {})
            /\ UNCHANGED orders
       ELSE /\ orders' = [orders EXCEPT ![i].total_price = total_price]
            /\ resp' = Response("update_order", caller, i, NoCategory, 200, {})
    /\ UNCHANGED <<products, next_id, reqs>>

\* The client takes the response. Every step waits for it: resp is written
\* and never read by a handler, so no interleaving of database steps is lost.
TakeResponse ==
    /\ resp # NoResp
    /\ resp' = NoResp
    /\ UNCHANGED <<products, next_id, orders, reqs>>

\* ------------------------------------------------------------------ next
Next ==
    \/ \E c \in Callers, cat \in Categories \cup {NoCategory} : ListProducts(c, cat)
    \/ \E c \in Callers, p \in PIDs : RetrieveProduct(c, p, NoCategory)
    \/ \E c \in Callers, pr \in Prices, cat \in Categories, s \in Stocks :
            CreateProduct(c, pr, cat, s)
    \/ \E c \in Callers, p \in PIDs, pr \in Prices, s \in Stocks :
            UpdateProduct(c, p, NoCategory, pr, s)
    \/ \E c \in Callers, p \in PIDs : DeleteProduct(c, p, NoCategory)
    \/ \E r \in Reqs, c \in Buyers, p \in PIDs, q \in Stocks, t \in Totals :
            BeginPurchase(r, c, p, q, t)
    \/ \E r \in Reqs : CheckAndSaveStock(r)
    \/ \E r \in Reqs : InsertOrder(r)
    \/ \E r \in Reqs : Respond(r)
    \/ \E c \in Callers, i \in 1..MaxOrders, t \in Prices : UpdateOrder(c, i, t)
    \/ TakeResponse

Spec == Init /\ [][Next]_vars

\* ---------------------------------------------- the two-purchase scenario
\* One product with stock = 1 is in the catalog, and each purchase request
\* is made once, for quantity 1 of that product; nothing else runs.
RaceInit ==
    /\ \E pr \in Prices, cat \in Categories, s \in {"s1", "s2"} :
            products = (1 :> Product(pr, cat, 1, s))
    /\ next_id = 2
    /\ orders = <<>>
    /\ reqs = [r \in Reqs |-> IdleReq]
    /\ resp = NoResp

RaceNext ==
    \/ \E r \in Reqs, c \in Buyers, t \in Totals : BeginPurchase(r, c, 1, 1, t)
    \/ \E r \in Reqs : CheckAndSaveStock(r)
    \/ \E r \in Reqs : InsertOrder(r)

RaceSpec == RaceInit /\ [][RaceNext]_vars

\* ------------------------------------------------------------------ claims
Finished(r) == reqs[r].pc \in {"insufficient", "created", "failed"}

Stepped(r) == reqs'[r] # reqs[r]

NonSeller(caller) == caller = Anon \/ ~is_seller[caller]

\* C1: in every reachable state, whatever purchase requests and catalog
\* requests have run and however their steps interleaved, every product's
\* stock is >= 0.
C1_StockNeverNegative ==
    \A p \in DOMAIN products : products[p].stock >= 0

\* Two purchases of the same product overlapped, both were created, and the
\* stock is 0.
C1_Witness ==
    /\ \A r \in Reqs : reqs[r].pc = "created" /\ reqs[r].pid = 1
    /\ 1 \in DOMAIN products /\ products[1].stock = 0
    /\ Len(orders) = 2 /\ \A i \in 1..2 : orders[i].quantity = 1

\* C2: of two purchase requests for quantity 1 that run concurrently on a
\* product with stock 1, exactly one succeeds and the other fails with the
\* insufficient-stock error; the stock ends at 0 and one order exists.
C2_ExactlyOneSucceeds ==
    (\A r \in Reqs : Finished(r)) =>
        /\ Cardinality({r \in Reqs : reqs[r].pc = "created"}) = 1
        /\ Cardinality({r \in Reqs : reqs[r].pc = "insufficient"}) = 1
        /\ products[1].stock = 0
        /\ Len(orders) = 1

\* C3: a purchase request whose quantity is greater than the stock of the
\* product row it read (the row of the table at the read) fails with the
\* insufficient-stock error carrying that stock value, and changes nothing:
\* no product row and no order row changes in its failing step, and the
\* request does nothing afterwards but end.
C3_InsufficientStockRejected ==
    [][\A r \in Reqs :
        /\ (reqs[r].pc = "idle" /\ reqs'[r].pc = "validated")
              => reqs'[r].product = products[reqs'[r].pid]
        /\ (reqs[r].pc = "validated" /\ Stepped(r)
                /\ reqs[r].quantity > reqs[r].product.stock)
              => /\ reqs'[r].pc = "insufficient"
                 /\ reqs'[r].error = reqs[r].product.stock
                 /\ products' = products
                 /\ orders' = orders
        /\ (reqs[r].pc = "insufficient" /\ Stepped(r))
              => /\ reqs'[r].pc = "idle"
                 /\ products' = products
                 /\ orders' = orders
      ]_vars

\* A request for 2 of a product with stock 1 failed with "Only 1 items
\* left", and the product and the ledger are as before.
C3_Witness ==
    \E r \in Reqs :
        /\ reqs[r].pc = "insufficient" /\ reqs[r].error = 1
        /\ reqs[r].pid \in DOMAIN products
        /\ products[reqs[r].pid].stock = 1
        /\ orders = <<>>

\* C4: the total price stored on an order created by a purchase is the
\* product's price at the purchase multiplied by the order's quantity,
\* whatever total_price the request body carried.
C4_TotalPriceComputed ==
    [][\A r \in Reqs :
        (reqs[r].pc = "saved" /\ reqs'[r].pc = "created")
            => LET o == orders'[Len(orders')]
               IN  o.total_price = products[o.product].price * o.quantity
      ]_vars

\* C5: the stock decrement and the order insertion are one atomic unit: in no
\* state, observable by another request, has a purchase written its stock
\* decrement while its order row does not exist.
C5_DecrementAndOrderAtomic ==
    \A r \in Reqs : reqs[r].pc \notin {"saved", "failed"}

\* C6: a purchase by an authenticated caller with 1 <= quantity <= stock of
\* the product row it read passes the stock check and writes that stock
\* minus quantity as the product's stock (0 when quantity = stock), and its
\* insertion, on a product row that still exists, appends exactly one order
\* for that product, buyer and quantity and ends the request as created.
C6_PurchaseSucceeds ==
    [][\A r \in Reqs :
        /\ (reqs[r].pc = "validated" /\ Stepped(r)
                /\ 1 <= reqs[r].quantity
                /\ reqs[r].quantity <= reqs[r].product.stock)
              => /\ reqs[r].buyer # Anon
                 /\ reqs'[r].pc = "saved"
                 /\ products'[reqs[r].pid].stock
                        = reqs[r].product.stock - reqs[r].quantity
                 /\ (reqs[r].quantity = reqs[r].product.stock
                        => products'[reqs[r].pid].stock = 0)
                 /\ orders' = orders
        /\ (reqs[r].pc = "saved" /\ Stepped(r)
                /\ reqs[r].pid \in DOMAIN products)
              => /\ reqs'[r].pc = "created"
                 /\ Len(orders') = Len(orders) + 1
                 /\ SubSeq(orders', 1, Len(orders)) = orders
                 /\ orders'[Len(orders')].product = reqs[r].pid
                 /\ orders'[Len(orders')].buyer = reqs[r].buyer
                 /\ orders'[Len(orders')].quantity = reqs[r].quantity
                 /\ products' = products
      ]_vars

\* A purchase of the whole stock (2 of 2) was created: the stock is 0 and
\* the ledger holds its one order.
C6_Witness ==
    \E r \in Reqs :
        /\ reqs[r].pc = "created"
        /\ reqs[r].pid \in DOMAIN products
        /\ products[reqs[r].pid].stock = 0
        /\ Len(orders) = 1 /\ orders[1].quantity = 2
        /\ orders[1].buyer = "b1"

\* C7: a product create request from a caller who is anonymous or is not a
\* seller is refused and changes no product; a product create request that
\* is served adds one product whose seller is the caller, a seller account.
C7_OnlySellersCreate ==
    [][resp'.op = "create" =>
        IF NonSeller(resp'.caller)
        THEN /\ resp'.status = 403
             /\ products' = products
             /\ next_id' = next_id
        ELSE /\ resp'.status = 201
             /\ DOMAIN products' = DOMAIN products \cup {next_id}
             /\ next_id \notin DOMAIN products
             /\ \A p \in DOMAIN products : products'[p] = products[p]
             /\ products'[next_id].seller = resp'.caller
             /\ resp'.caller # Anon /\ is_seller[resp'.caller]
      ]_vars

\* The buyer account asked to create a product and was refused.
C7_Witness ==
    /\ resp.op = "create" /\ resp.caller = "b1" /\ resp.status = 403
    /\ products = <<>>

\* C8: a product list returned to an anonymous caller or to a non-seller
\* holds no product with stock = 0; a product list returned to a seller
\* holds every product that seller owns, those with stock = 0 included;
\* with a category filter it holds only products of that category, and of
\* the seller's own products those of that category.
C8_ListScope ==
    resp.op = "list" =>
        /\ resp.status = 200
        /\ \A row \in resp.body :
              /\ row[1] \in DOMAIN products /\ products[row[1]] = row[2]
              /\ NonSeller(resp.caller) => row[2].stock > 0
              /\ resp.category # NoCategory => row[2].category = resp.category
        /\ ~NonSeller(resp.caller) =>
              \A p \in DOMAIN products :
                  (/\ products[p].seller = resp.caller
                   /\ resp.category \in {NoCategory, products[p].category})
                      => <<p, products[p]>> \in resp.body

\* An anonymous caller listed the catalog while its one product had stock 0
\* and got an empty list.
C8_Witness ==
    /\ resp.op = "list" /\ resp.caller = Anon /\ resp.body = {}
    /\ \E p \in DOMAIN products : products[p].stock = 0

\* C9 as stated: no catalog list or detail read by a seller returns a
\* product owned by a different seller whose stock is 0.
C9_OtherSellersZeroStockHidden ==
    (resp.op \in {"list", "retrieve"} /\ ~NonSeller(resp.caller)) =>
        \A row \in resp.body :
            row[2].seller # resp.caller => row[2].stock > 0

\* C9 amended: a catalog list read by a seller returns every product of the
\* requested category (every product when no category is asked for), and a
\* detail read by a seller returns the product whenever it exists, whoever
\* owns it and whatever its stock: other sellers' products with stock 0 are
\* returned too.
C9_SellerSeesAllProducts ==
    /\ (resp.op = "list" /\ ~NonSeller(resp.caller)) =>
          resp.body = {<<p, products[p]>> : p \in
                          {q \in DOMAIN products :
                              resp.category \in {NoCategory, products[q].category}}}
    /\ (resp.op = "retrieve" /\ ~NonSeller(resp.caller)
            /\ resp.category = NoCategory) =>
          IF resp.pid \in DOMAIN products
          THEN resp.status = 200
                  /\ resp.body = {<<resp.pid, products[resp.pid]>>}
          ELSE resp.status = 404 /\ resp.body = {}

\* Seller s1 listed the catalog and got a product of seller s2 with stock 0.
C9_Witness ==
    /\ resp.op = "list" /\ resp.caller = "s1"
    /\ \E row \in resp.body : row[2].seller = "s2" /\ row[2].stock = 0

\* C10: an update or delete request on a product from a caller other than
\* the product's seller is refused and leaves the product unchanged.
C10_OnlyOwnerWrites ==
    [][\A p \in DOMAIN products :
        (resp'.op \in {"update", "destroy"} /\ resp'.pid = p
            /\ resp'.caller # products[p].seller)
            => /\ resp'.status = 403
               /\ p \in DOMAIN products' /\ products'[p] = products[p]
      ]_vars

\* C11: every order in the ledger has quantity >= 1: a purchase request with
\* quantity = 0 is rejected before the purchase logic runs and creates no
\* order.
C11_OrderQuantityPositive ==
    \A i \in 1..Len(orders) : orders[i].quantity >= 1

\* C12: an order's total price is immutable after creation: whatever request
\* any caller makes, every order that stays in the ledger keeps the total
\* price it had.
C12_TotalPriceImmutable ==
    [][Len(orders') >= Len(orders) =>
        \A i \in 1..Len(orders) :
            orders'[i].total_price = orders[i].total_price
      ]_vars

====
